---------------------------- MODULE Spec2Model ----------------------------
(***************************************************************************)
(* The Ising simulator of Classwork/12.2.ipynb (class IsingSimulation) and *)
(* the notebook cells that drive it.                                       *)
(*                                                                         *)
(* Numbers.  The code computes in IEEE doubles; the model computes the     *)
(* same quantities exactly, in integers:                                   *)
(*   - energies are integers in units of 1e-26 Joule (J = 634369),         *)
(*   - kB is an integer in units of 1e-28 Joule/Kelvin (kB = 138065),      *)
(*   - a temperature is a Python number [type, val]: the constructor keeps *)
(*     the int it is given, set_temperature stores float(temp),            *)
(*   - log_p = -delta_E / (temperature * kB) is the exact quotient         *)
(*     (-100 * delta_E) / (val * kB), or what numpy returns for a division *)
(*     by zero: -inf, +inf or nan,                                         *)
(*   - log(uniform(0, 1)) is a negative integer, or -inf for a draw of 0.  *)
(***************************************************************************)
EXTENDS Integers, Sequences, FiniteSets

VARIABLES
    size,         \* self.size
    temperature,  \* self.temperature, a Python number [type, val]
    state,        \* self.state, a function from the cells to the spins
    step,         \* self.step
    call,         \* the last call made on the simulator, with its locals and result
    calls,        \* number of update() calls the driver has made
    pc,           \* position of the driving notebook cell
    round,        \* the cooling sweep's loop variable i
    inner,        \* the cooling sweep's inner loop variable _
    lis2,         \* the cooling sweep's list of final magnetisms
    g,            \* the epidemic notebook's global g: a graph with node attributes
    nextg,        \* the epidemic notebook's global nextg
    sis           \* the last call of the epidemic notebook, with its draws and outcome

vars == <<size, temperature, state, step, call, calls, pc, round, inner, lis2,
          g, nextg, sis>>

driver == <<pc, round, inner, lis2>>

ising == <<size, temperature, state, step, call, calls, pc, round, inner, lis2>>

epidemic == <<g, nextg, sis>>

-----------------------------------------------------------------------------
(* Bounds of the model *)

\* largest lattice side a driver constructs (the notebook uses 20)
MaxSize == 2
\* largest lattice side the observables are evaluated on
MaxLattice == 3
\* number of update() calls a driver makes (the notebook uses 1000)
MaxUpdates == 3
\* start temperature and number of rounds of the cooling sweep (the notebook uses 2000)
SweepT0 == 3
\* update() calls per round of the cooling sweep (the notebook uses 100)
UpdatesPerRound == 2
\* number of nodes n of the epidemic model's graphs (the notebook uses 100)
SisNodes == 3

(* Constants of the program *)

\* class attribute J, in units of 1e-26 Joule
J == 634369
\* class attribute kB, in units of 1e-28 Joule / Kelvin
kB == 138065
\* default of the constructor's temperature argument
DefaultTemperature == 300
\* temperature the first driver constructs with
CurieTemperature == 1043

-----------------------------------------------------------------------------
(* Python numbers *)

PyInt(v) == [type |-> "int", val |-> v]

\* float(temp)
ToFloat(t) == [type |-> "float", val |-> t.val]

\* temperature - 1: int - int is an int, float - int is a float
MinusOne(t) == [type |-> t.type, val |-> t.val - 1]

\* temperatures the drivers construct with
InitTemps == {PyInt(DefaultTemperature), PyInt(CurieTemperature)}

\* arguments a caller passes to set_temperature
TempArgs == {PyInt(-5), PyInt(0), PyInt(1), PyInt(DefaultTemperature)}

\* values of scipy.log(scipy.random.uniform(0, 1)): uniform draws from [0, 1)
LogDraws == {[inf |-> FALSE, val |-> -1], [inf |-> FALSE, val |-> -5],
             [inf |-> FALSE, val |-> -4000], [inf |-> TRUE, val |-> -1]}

-----------------------------------------------------------------------------
(* The lattice *)

Spins == {-1, 1}

Cells(n) == (0 .. n - 1) \X (0 .. n - 1)

Lattices(n) == [Cells(n) -> Spins]

RECURSIVE SumOver(_, _)
SumOver(f, S) ==
    IF S = {} THEN 0
    ELSE LET c == CHOOSE x \in S : TRUE
         IN  f[c] + SumOver(f, S \ {c})

\* scipy.roll with the axis argument ignored: every roll is along axis 0
RollAlongRows(a, shift, axis, n) ==
    [c \in Cells(n) |-> a[<<(c[1] - shift) % n, c[2]>>]]

\* scipy.roll(a, shift, axis) on an n-by-n array
Roll(a, shift, axis, n) ==
    [c \in Cells(n) |->
        IF axis = 0 THEN a[<<(c[1] - shift) % n, c[2]>>]
                    ELSE a[<<c[1], (c[2] - shift) % n>>]]

\* the sum of an array's entries
ArraySum(a, n) == SumOver(a, Cells(n))

\* self.state[i,j] = ~self.state[i,j]: the bitwise complement for the negation
BitwiseNot(v) == (-v) - 1

\* self.state[i,j] = -self.state[i,j]
Negate(v) == -v

\* self.state[i] = -self.state[i]: the whole row i negated
FlipRow(s, i, j) == [c \in DOMAIN s |-> IF c[1] = i THEN -s[c] ELSE s[c]]

FlipCell(s, i, j) == [s EXCEPT ![<<i, j>>] = Negate(@)]

-----------------------------------------------------------------------------
(* The observables *)

\* state * roll(state, 1, axis=0): the coupling along axis 1 left out
CouplingOneAxis(s, n) == [c \in Cells(n) |-> s[c] * Roll(s, 1, 0, n)[c]]

\* state * (roll(state, 1, axis=0) + roll(state, 1, axis=1))
Coupling(s, n) ==
    [c \in Cells(n) |-> s[c] * (Roll(s, 1, 0, n)[c] + Roll(s, 1, 1, n)[c])]

\* the value energy() returns, in units of 1e-26 Joule
EnergyOf(s, n) == (-J) * ArraySum(Coupling(s, n), n)

\* state.sum() / self.size: divided by the side, not by the number of cells
MeanBySide(s, n) == [num |-> ArraySum(s, n), den |-> n]

\* the value average_magnetism() returns: state.mean(), the exact quotient num / den
MeanOf(s, n) == [num |-> ArraySum(s, n), den |-> n * n]

-----------------------------------------------------------------------------
(* The Metropolis trial *)

\* delta_E of update(), in units of 1e-26 Joule
DeltaE(s, n, i, j) ==
    2 * J * s[<<i, j>>] * (s[<<(i + 1) % n, j>>] + s[<<(i - 1) % n, j>>]
                           + s[<<i, (j + 1) % n>>] + s[<<i, (j - 1) % n>>])

\* log_p = delta_E / (self.temperature * self.kB): the minus sign left out
LogPNoMinus(delta_E, t) ==
    LET den == t.val * kB
    IN  IF den = 0
        THEN [kind |-> IF delta_E > 0 THEN "+inf"
                       ELSE IF delta_E < 0 THEN "-inf" ELSE "nan",
              num |-> 0, den |-> 0]
        ELSE [kind |-> "num", num |-> 100 * delta_E, den |-> den]

\* log_p = -delta_E / (self.temperature * self.kB); delta_E is a numpy float,
\* so a zero divisor gives -inf, +inf or nan and no exception
LogP(delta_E, t) ==
    LET den == t.val * kB
    IN  IF den = 0
        THEN [kind |-> IF delta_E > 0 THEN "-inf"
                       ELSE IF delta_E < 0 THEN "+inf" ELSE "nan",
              num |-> 0, den |-> 0]
        ELSE [kind |-> "num", num |-> (-100) * delta_E, den |-> den]

\* the least integer >= num / den, for den > 0
Ceil(num, den) ==
    IF num >= 0 THEN (num + den - 1) \div den ELSE -((-num) \div den)

\* x < num / den for an integer x and den # 0
RatLess(x, num, den) ==
    IF den > 0 THEN x < Ceil(num, den) ELSE x < Ceil(-num, -den)

\* the greedy rule: the flip is accepted only if it lowers the energy
\* (if delta_E < 0 in place of the Metropolis test)
LogLessGreedy(lu, lp) ==
    CASE lp.kind = "nan"  -> FALSE
      [] lp.kind = "+inf" -> TRUE
      [] lp.kind = "-inf" -> FALSE
      [] OTHER            -> (lp.num > 0 /\ lp.den > 0) \/ (lp.num < 0 /\ lp.den < 0)

\* the comparison with a draw of 0 rejected: log(0) = -inf taken for no number
LogLessFinite(lu, lp) ==
    CASE lp.kind = "nan"  -> FALSE
      [] lp.kind = "+inf" -> ~lu.inf
      [] lp.kind = "-inf" -> FALSE
      [] OTHER            -> ~lu.inf /\ RatLess(lu.val, lp.num, lp.den)

\* scipy.log(scipy.random.uniform(0, 1)) < log_p
LogLess(lu, lp) ==
    CASE lp.kind = "nan"  -> FALSE
      [] lp.kind = "+inf" -> TRUE
      [] lp.kind = "-inf" -> FALSE
      [] OTHER            -> lu.inf \/ RatLess(lu.val, lp.num, lp.den)

\* self.step += 1 inside the if: only an accepted flip counts
StepIfAccepted(s, accepted) == IF accepted THEN s + 1 ELSE s

\* self.step += 1, after the trial whether or not the flip was accepted
NextStep(s, accepted) == s + 1

-----------------------------------------------------------------------------
(* The two notebooks are separate programs: while one runs, the globals of *)
(* the other do not exist                                                  *)

\* the epidemic notebook has not run
NoEpidemic ==
    /\ g = [edges |-> {}, st |-> <<>>]
    /\ nextg = [edges |-> {}, st |-> <<>>]
    /\ sis = [op |-> "None", raised |-> "None"]

\* no IsingSimulation has been constructed
NoSimulator ==
    /\ size = 0
    /\ temperature = PyInt(0)
    /\ state = <<>>
    /\ step = 0
    /\ call = [op |-> "None", ret |-> "None", raised |-> "None"]
    /\ calls = 0
    /\ round = 0
    /\ inner = 0
    /\ lis2 = <<>>

-----------------------------------------------------------------------------
(* The methods of IsingSimulation: what one call does to the simulator *)

\* IsingSimulation(n, temperature=t)
construct(n, t) ==
    /\ size = n
    /\ temperature = t
    /\ state \in Lattices(n)
    /\ step = 0
    /\ call = [op |-> "__init__", ret |-> "None", raised |-> "None"]
    /\ calls = 0

\* set_temperature that also restarts the step counter
set_temperature_restart(temp) ==
    /\ temperature' = ToFloat(temp)
    /\ step' = 0
    /\ call' = [op |-> "set_temperature", arg |-> temp,
                ret |-> "None", raised |-> "None"]
    /\ UNCHANGED <<size, state>>

set_temperature(temp) ==
    /\ temperature' = ToFloat(temp)
    /\ call' = [op |-> "set_temperature", arg |-> temp,
                ret |-> "None", raised |-> "None"]
    /\ UNCHANGED <<size, state, step>>

\* energy() that multiplies the lattice in place (self.state *= ...)
energy_in_place ==
    /\ state' = Coupling(state, size)
    /\ call' = [op |-> "energy", ret |-> EnergyOf(state, size), raised |-> "None"]
    /\ UNCHANGED <<size, temperature, step>>

energy ==
    /\ call' = [op |-> "energy", ret |-> EnergyOf(state, size), raised |-> "None"]
    /\ UNCHANGED <<size, temperature, state, step>>

average_magnetism ==
    /\ call' = [op |-> "average_magnetism", ret |-> MeanOf(state, size),
                raised |-> "None"]
    /\ UNCHANGED <<size, temperature, state, step>>

\* update() that also cools the simulator by one Kelvin (an annealing step)
update_cooling(i, j, lu) ==
    LET delta_E == DeltaE(state, size, i, j)
        log_p == LogP(delta_E, temperature)
        accepted == LogLess(lu, log_p)
    IN  /\ state' = IF accepted THEN FlipCell(state, i, j) ELSE state
        /\ step' = NextStep(step, accepted)
        /\ temperature' = MinusOne(temperature)
        /\ call' = [op |-> "update", i |-> i, j |-> j, delta_E |-> delta_E,
                    log_p |-> log_p, accepted |-> accepted,
                    ret |-> "None", raised |-> "None"]
        /\ UNCHANGED size

\* update() with the random cell (i, j) and the value lu of log(uniform(0, 1))
update(i, j, lu) ==
    LET delta_E == DeltaE(state, size, i, j)
        log_p == LogP(delta_E, temperature)
        accepted == LogLess(lu, log_p)
    IN  /\ state' = IF accepted THEN FlipCell(state, i, j) ELSE state
        /\ step' = NextStep(step, accepted)
        /\ call' = [op |-> "update", i |-> i, j |-> j, delta_E |-> delta_E,
                    log_p |-> log_p, accepted |-> accepted,
                    ret |-> "None", raised |-> "None"]
        /\ UNCHANGED <<size, temperature>>

-----------------------------------------------------------------------------
(* A client that constructs a simulator and calls its methods in any order *)

Init ==
    /\ \E n \in 1 .. MaxSize : \E t \in InitTemps : construct(n, t)
    /\ pc = "client"
    /\ round = 0
    /\ inner = 0
    /\ lis2 = <<>>
    /\ NoEpidemic

Update ==
    /\ pc = "client"
    /\ calls < MaxUpdates
    /\ \E c \in Cells(size) : \E lu \in LogDraws : update(c[1], c[2], lu)
    /\ calls' = calls + 1
    /\ UNCHANGED driver
    /\ UNCHANGED epidemic

SetTemperature ==
    /\ pc = "client"
    /\ \E t \in TempArgs : set_temperature(t)
    /\ UNCHANGED <<calls, driver>>
    /\ UNCHANGED epidemic

Energy ==
    /\ pc \in {"client", "observe"}
    /\ energy
    /\ UNCHANGED <<calls, driver>>
    /\ UNCHANGED epidemic

AverageMagnetism ==
    /\ pc \in {"client", "observe"}
    /\ average_magnetism
    /\ UNCHANGED <<calls, driver>>
    /\ UNCHANGED epidemic

Next == Update \/ SetTemperature \/ Energy \/ AverageMagnetism

Spec == Init /\ [][Next]_vars

-----------------------------------------------------------------------------
(* The observables as pure functions: every lattice up to MaxLattice *)

InitObserve ==
    /\ \E n \in 1 .. MaxLattice : construct(n, PyInt(DefaultTemperature))
    /\ pc = "observe"
    /\ round = 0
    /\ inner = 0
    /\ lis2 = <<>>
    /\ NoEpidemic

NextObserve == Energy \/ AverageMagnetism

SpecObserve == InitObserve /\ [][NextObserve]_vars

-----------------------------------------------------------------------------
(* The cooling sweep: one iteration of the outer loop, which constructs a  *)
(* fresh simulator at temperature SweepT0, runs SweepT0 rounds of          *)
(* UpdatesPerRound updates, each followed by                               *)
(* set_temperature(sim.temperature - 1), and appends the final magnetism   *)

InitSweep ==
    /\ construct(MaxSize, PyInt(SweepT0))
    /\ pc = "sweep"
    /\ round = 0
    /\ inner = 0
    /\ lis2 = <<>>
    /\ NoEpidemic

\* the inner loop with one round too many: range(SweepT0 + 1) rounds
SweepUpdateExtraRound ==
    /\ pc = "sweep"
    /\ round <= SweepT0
    /\ inner < UpdatesPerRound
    /\ \E c \in Cells(size) : \E lu \in LogDraws : update(c[1], c[2], lu)
    /\ inner' = inner + 1
    /\ calls' = calls + 1
    /\ UNCHANGED <<pc, round, lis2>>
    /\ UNCHANGED epidemic

SweepUpdate ==
    /\ pc = "sweep"
    /\ round < SweepT0
    /\ inner < UpdatesPerRound
    /\ \E c \in Cells(size) : \E lu \in LogDraws : update(c[1], c[2], lu)
    /\ inner' = inner + 1
    /\ calls' = calls + 1
    /\ UNCHANGED <<pc, round, lis2>>
    /\ UNCHANGED epidemic

SweepCool ==
    /\ pc = "sweep"
    /\ round < SweepT0
    /\ inner = UpdatesPerRound
    /\ set_temperature(MinusOne(temperature))
    /\ round' = round + 1
    /\ inner' = 0
    /\ UNCHANGED <<pc, calls, lis2>>
    /\ UNCHANGED epidemic

SweepAppend ==
    /\ pc = "sweep"
    /\ round = SweepT0
    /\ average_magnetism
    /\ lis2' = Append(lis2, MeanOf(state, size))
    /\ pc' = "done"
    /\ UNCHANGED <<calls, round, inner>>
    /\ UNCHANGED epidemic

NextSweep == SweepUpdate \/ SweepCool \/ SweepAppend

SpecSweep == InitSweep /\ [][NextSweep]_vars

-----------------------------------------------------------------------------
(* Construction as a step: a client that calls IsingSimulation(n) or       *)
(* IsingSimulation(n, temperature=t) with any arguments, and then the      *)
(* methods of the simulator it got                                         *)

\* sizes a caller passes to the constructor
ConstructSizes == -1 .. MaxSize

\* the temperature arguments a caller passes: none, or one
ConstructArgs == {<<>>, <<PyInt(CurieTemperature)>>, <<PyInt(0)>>}

\* a constructor that draws one spin and fills the lattice with it
\* (scipy.random.choice without its size argument, broadcast)
UniformLattices(n) == {[c \in Cells(n) |-> v] : v \in Spins}

\* scipy.random.choice([-1, +1], size=(n, n))
DrawLattice(n) == Lattices(n)

\* IsingSimulation(n, *args).  A negative n makes scipy.random.choice raise
\* ValueError (negative dimensions) after size and temperature are assigned;
\* nothing else stops the constructor
new_simulator(n, args) ==
    LET t == IF Len(args) = 0 THEN PyInt(DefaultTemperature) ELSE args[1]
    IN  /\ size' = n
        /\ temperature' = t
        /\ IF n < 0
           THEN /\ UNCHANGED <<state, step>>
                /\ call' = [op |-> "__init__", n |-> n, args |-> args,
                            ret |-> "None", raised |-> "ValueError"]
           ELSE /\ state' \in DrawLattice(n)
                /\ step' = 0
                /\ call' = [op |-> "__init__", n |-> n, args |-> args,
                            ret |-> "None", raised |-> "None"]

InitConstruct ==
    /\ NoSimulator
    /\ pc = "start"
    /\ NoEpidemic

Construct ==
    /\ pc = "start"
    /\ \E n \in ConstructSizes : \E args \in ConstructArgs :
          /\ new_simulator(n, args)
          /\ pc' = IF n < 0 THEN "failed" ELSE "client"
    /\ UNCHANGED <<calls, round, inner, lis2>>
    /\ UNCHANGED epidemic

\* update() on a simulator of size 0: scipy.random.randint(0, size=2) raises
\* ValueError before anything is read or written
UpdateEmpty ==
    /\ pc = "client"
    /\ size = 0
    /\ calls < MaxUpdates
    /\ call' = [op |-> "update", ret |-> "None", raised |-> "ValueError"]
    /\ calls' = calls + 1
    /\ UNCHANGED <<size, temperature, state, step>>
    /\ UNCHANGED driver
    /\ UNCHANGED epidemic

NextConstruct ==
    Construct \/ Update \/ UpdateEmpty \/ SetTemperature \/ Energy \/ AverageMagnetism

SpecConstruct == InitConstruct /\ [][NextConstruct]_vars

-----------------------------------------------------------------------------
(* The epidemic notebook: the synchronous SIS model on a random graph.     *)
(* A graph is [nodes, edges, st]: st maps the nodes that carry a 'state'   *)
(* attribute to its value.  pe, p_i and p_r lie strictly between 0 and 1,  *)
(* so every graph on the nodes and both outcomes of every random() test    *)
(* are possible.                                                           *)

Nodes == 0 .. SisNodes - 1

\* the edge sets nx.erdos_renyi_graph(n, pe) can return
Graphs == SUBSET {e \in SUBSET Nodes : Cardinality(e) = 2}

\* list(gr.neighbors(a))
Nbrs(gr, a) == {b \in Nodes : {a, b} \in gr.edges}

\* d[a] = v on a dict d
Put(d, a, v) == [x \in DOMAIN d \cup {a} |-> IF x = a THEN v ELSE d[x]]

\* the neighbour each node samples with rd.choice if it reaches that line
Picks(gr) ==
    {pick \in [Nodes -> Nodes] :
        \A a \in Nodes : IF Nbrs(gr, a) = {} THEN pick[a] = a
                                              ELSE pick[a] \in Nbrs(gr, a)}

\* the outcome of the test random() < p_i or random() < p_r of each node
Coins == [Nodes -> BOOLEAN]

\* the loop of update() from node a on, with nst the 'state' attributes of
\* nextg so far: the attributes of nextg when the loop ends, and the
\* exception that ended it, if any
RECURSIVE SisLoop(_, _, _, _)
SisLoop(a, nst, pick, coin) ==
    IF a = SisNodes THEN [st |-> nst, raised |-> "None"]
    ELSE IF a \notin DOMAIN g.st THEN [st |-> nst, raised |-> "KeyError"]
    ELSE IF g.st[a] = 0
         THEN IF Nbrs(g, a) = {} THEN [st |-> nst, raised |-> "IndexError"]
              ELSE IF pick[a] \notin DOMAIN g.st
                   THEN [st |-> nst, raised |-> "KeyError"]
              ELSE IF g.st[pick[a]] = 1
                   THEN SisLoop(a + 1, Put(nst, a, IF coin[a] THEN 1 ELSE 0),
                                pick, coin)
                   ELSE SisLoop(a + 1, nst, pick, coin)
         ELSE SisLoop(a + 1, Put(nst, a, IF coin[a] THEN 0 ELSE 1), pick, coin)

\* the state after initialize(): g with a random 'state' on every node,
\* nextg a second random graph without attributes
initialize ==
    /\ \E e \in Graphs : \E st \in [Nodes -> {0, 1}] :
          g = [nodes |-> Nodes, edges |-> e, st |-> st]
    /\ \E e \in Graphs : nextg = [nodes |-> Nodes, edges |-> e, st |-> <<>>]
    /\ sis = [op |-> "initialize", raised |-> "None"]

\* update() of the epidemic notebook; g and nextg are swapped only if the
\* loop ends without an exception
sis_update(pick, coin) ==
    LET r == SisLoop(0, nextg.st, pick, coin)
    IN  /\ IF r.raised = "None"
           THEN /\ g' = [nextg EXCEPT !.st = r.st]
                /\ nextg' = g
           ELSE /\ g' = g
                /\ nextg' = [nextg EXCEPT !.st = r.st]
        /\ sis' = [op |-> "update", pick |-> pick, coin |-> coin,
                   raised |-> r.raised]

InitSIS ==
    /\ NoSimulator
    /\ pc = "epidemic"
    /\ initialize

SisUpdate ==
    /\ pc = "epidemic"
    /\ \E pick \in Picks(g) : \E coin \in Coins : sis_update(pick, coin)
    /\ UNCHANGED ising

NextSIS == SisUpdate

SpecSIS == InitSIS /\ [][NextSIS]_vars

-----------------------------------------------------------------------------
(* Properties *)

Reads == {"energy", "average_magnetism"}

\* C1: every cell of the lattice holds -1 or +1, after construction and
\* after any sequence of update, set_temperature, energy and
\* average_magnetism calls.
SpinsAreUnit ==
    /\ DOMAIN state = Cells(size)
    /\ \A c \in Cells(size) : state[c] = -1 \/ state[c] = 1

\* an accepted flip, after the full run of updates and a set_temperature
SpinsAreUnitWitness ==
    /\ calls = MaxUpdates
    /\ call.op = "update"
    /\ call.accepted
    /\ temperature.type = "float"

\* C2: the step counter equals the number of update() calls made since
\* construction (where it is 0), whether the trials were accepted or not.
StepCountsUpdates == step = calls

\* the full run of updates, the last one rejected
StepCountsUpdatesWitness ==
    /\ calls = MaxUpdates
    /\ step = MaxUpdates
    /\ call.op = "update"
    /\ ~call.accepted

\* C3: an update() call leaves every cell other than the chosen cell (i, j)
\* as it was, and leaves the chosen cell unchanged or negated.
UpdateTouchesOneCell ==
    [][call'.op = "update" =>
          LET c == <<call'.i, call'.j>>
          IN  /\ \A d \in Cells(size) \ {c} : state'[d] = state[d]
              /\ state'[c] = state[c] \/ state'[c] = -state[c]]_vars

\* an accepted flip on a lattice with more than one row
UpdateTouchesOneCellWitness ==
    /\ size = MaxSize
    /\ call.op = "update"
    /\ call.accepted

\* -J times the sum over the cells of spin(i,j) * (spin(i+1 mod N, j) + spin(i, j+1 mod N))
DownRightEnergy(s, n) ==
    (-J) * SumOver([c \in Cells(n) |->
                       s[c] * (s[<<(c[1] + 1) % n, c[2]>>] + s[<<c[1], (c[2] + 1) % n>>])],
                   Cells(n))

\* C4: energy() returns -J times the sum over all cells of the spin times
\* the sum of its down and right toroidal neighbours.
EnergyIsDownRightSum ==
    call.op = "energy" => call.ret = DownRightEnergy(state, size)

\* energy() of a lattice of the largest side that is not uniform
EnergyIsDownRightSumWitness ==
    /\ call.op = "energy"
    /\ size = MaxLattice
    /\ \E c, d \in Cells(size) : state[c] # state[d]

AllUp(s, n) == \A c \in Cells(n) : s[c] = 1

Checkerboard(s, n) ==
    \A c \in Cells(n) : s[c] = IF (c[1] + c[2]) % 2 = 0 THEN 1 ELSE -1

\* C5: energy() of the all +1 lattice is -J*2*N^2, and energy() of the
\* checkerboard lattice of an even side N is +J*2*N^2.
EnergyOfExtremes ==
    call.op = "energy" =>
        /\ AllUp(state, size) => call.ret = (-J) * 2 * size * size
        /\ (Checkerboard(state, size) /\ size % 2 = 0) =>
               call.ret = J * 2 * size * size

\* energy() of a checkerboard of even side
EnergyOfExtremesWitness ==
    /\ call.op = "energy"
    /\ size % 2 = 0
    /\ Checkerboard(state, size)

\* C6: average_magnetism() returns a value in [-1, +1] in every state
\* reachable by construction and updates.
MagnetismInUnitInterval ==
    call.op = "average_magnetism" =>
        /\ call.ret.den > 0
        /\ -call.ret.den <= call.ret.num
        /\ call.ret.num <= call.ret.den

\* average_magnetism() of a fully aligned lattice, after updates
MagnetismInUnitIntervalWitness ==
    /\ call.op = "average_magnetism"
    /\ calls > 0
    /\ size = MaxSize
    /\ call.ret.num = call.ret.den

\* C7: energy() and average_magnetism() leave the lattice, the step counter
\* and the temperature unchanged, and the same call made again right after
\* returns the value just returned.
ReadsArePure ==
    [][call'.op \in Reads =>
          /\ state' = state
          /\ step' = step
          /\ temperature' = temperature
          /\ size' = size
          /\ call'.op = "energy" => call'.ret = EnergyOf(state', size')
          /\ call'.op = "average_magnetism" => call'.ret = MeanOf(state', size')]_vars

\* energy() called after updates
ReadsArePureWitness ==
    /\ call.op = "energy"
    /\ step > 0

\* C8: set_temperature(value) replaces the temperature by float(value) and
\* leaves the lattice and the step counter alone; update() does not change
\* the temperature and computes log_p with it.
SetTemperatureOnly ==
    [][/\ call'.op = "set_temperature" =>
             /\ temperature' = ToFloat(call'.arg)
             /\ state' = state
             /\ step' = step
       /\ call'.op = "update" =>
             /\ temperature' = temperature
             /\ call'.log_p = LogP(call'.delta_E, temperature)]_vars

\* an update whose outcome the newly set temperature decides: delta_E > 0,
\* accepted at the temperature set after some updates
SetTemperatureOnlyWitness ==
    /\ call.op = "update"
    /\ temperature.type = "float"
    /\ temperature.val = 1
    /\ step > 1
    /\ call.delta_E > 0
    /\ call.accepted

\* C9: the temperature is positive in every state of the cooling sweep.
TemperaturePositive == temperature.val > 0

\* C10: set_temperature with a non-positive value raises an
\* invalid-configuration error and changes nothing.
NonPositiveTemperatureRejected ==
    [][(call'.op = "set_temperature" /\ call'.arg.val <= 0) =>
          /\ call'.raised = "invalid configuration"
          /\ temperature' = temperature
          /\ state' = state
          /\ step' = step]_vars

\* C11: no simulator with a non-positive size or a non-positive temperature
\* exists: the constructor fails on such arguments.
NoInvalidSimulator ==
    pc = "client" => (size > 0 /\ temperature.val > 0)

\* C12: construction with size N yields an N-by-N lattice, step counter 0
\* and the given temperature, or 300 when none is given; and every
\* assignment of -1/+1 to the cells is a lattice construction can yield.
ConstructionYields ==
    /\ (call.op = "__init__" /\ call.raised = "None") =>
          /\ size = call.n
          /\ DOMAIN state = (0 .. call.n - 1) \X (0 .. call.n - 1)
          /\ step = 0
          /\ temperature = IF call.args = <<>> THEN PyInt(300) ELSE call.args[1]
    /\ pc = "start" =>
          \A n \in 1 .. MaxSize :
             \A L \in [(0 .. n - 1) \X (0 .. n - 1) -> {-1, 1}] :
                ENABLED (Construct /\ size' = n /\ state' = L)

\* a simulator of the largest size, constructed without a temperature,
\* whose lattice is not uniform
ConstructionYieldsWitness ==
    /\ call.op = "__init__"
    /\ call.raised = "None"
    /\ call.args = <<>>
    /\ size = MaxSize
    /\ \E c, d \in DOMAIN state : state[c] # state[d]

\* the lattice s with cell c negated
Flipped(s, c) == [d \in DOMAIN s |-> IF d = c THEN -s[d] ELSE s[d]]

\* C15: the delta_E update() computes for the chosen cell equals energy()
\* of the lattice with that cell negated minus energy() of the lattice.
DeltaEIsEnergyChange ==
    [][call'.op = "update" =>
          call'.delta_E = EnergyOf(Flipped(state, <<call'.i, call'.j>>), size)
                          - EnergyOf(state, size)]_vars

\* lu < -delta_E / (t * kB) in the extended reals, for the draw lu: the
\* quotient a / b with b > 0 is q + r / b for q = a \div b and r = a % b
DrawBelowRatio(lu, delta_E, t) ==
    LET den == t.val * kB
        a == IF den > 0 THEN (-100) * delta_E ELSE 100 * delta_E
        b == IF den > 0 THEN den ELSE -den
    IN  IF den = 0
        THEN delta_E < 0
        ELSE \/ lu.inf
             \/ lu.val < a \div b
             \/ (lu.val = a \div b /\ a % b > 0)

\* C16: update() negates the chosen cell if and only if the log of the
\* uniform draw is strictly less than -delta_E / (temperature * kB), and
\* leaves the lattice as it was otherwise.
MetropolisRule ==
    [][call'.op = "update" =>
          \A lu \in LogDraws :
             update(call'.i, call'.j, lu) =>
                 state' = IF DrawBelowRatio(lu, call'.delta_E, temperature)
                          THEN Flipped(state, <<call'.i, call'.j>>)
                          ELSE state]_vars

\* a rejected trial at a positive temperature
MetropolisRuleWitness ==
    /\ call.op = "update"
    /\ call.delta_E > 0
    /\ ~call.accepted
    /\ temperature.val > 0
    /\ size = MaxSize

\* C17: at a positive temperature an update() whose chosen cell has
\* delta_E <= 0 flips that cell, whatever the uniform draw.
DownhillAlwaysFlips ==
    [][(call'.op = "update" /\ temperature.val > 0 /\ call'.delta_E <= 0) =>
          state' = Flipped(state, <<call'.i, call'.j>>)]_vars

\* a neutral flip (delta_E = 0) at a positive temperature
DownhillAlwaysFlipsWitness ==
    /\ call.op = "update"
    /\ call.delta_E = 0
    /\ call.accepted
    /\ temperature.val > 0
    /\ size = MaxSize

\* C13: every node of the current graph g has a 'state' that is 0 or 1.
NodeStatesBinary ==
    pc = "epidemic" =>
        \A a \in Nodes : a \in DOMAIN g.st /\ (g.st[a] = 0 \/ g.st[a] = 1)

\* the state the synchronous SIS rule gives node a, from the states st
\* before the call, the neighbour a sampled and the outcome of its test
SyncRule(st, a, pick, coin) ==
    IF st[a] = 0
    THEN IF st[pick[a]] = 1 /\ coin[a] THEN 1 ELSE 0
    ELSE IF coin[a] THEN 0 ELSE 1

\* C14: the state every node has after an update() is computed from the
\* node states before that call only.
UpdateIsSynchronous ==
    [][(sis'.op = "update" /\ sis'.raised = "None") =>
          \A a \in Nodes :
             /\ a \in DOMAIN g'.st
             /\ g'.st[a] = SyncRule(g.st, a, sis'.pick, sis'.coin)]_vars

\* C18: a node susceptible before an update() is infected after it only if
\* the neighbour it sampled was infected before the call, and is still
\* susceptible if that neighbour was susceptible.
InfectionNeedsInfectedNeighbour ==
    [][(sis'.op = "update" /\ sis'.raised = "None") =>
          \A a \in Nodes :
             g.st[a] = 0 =>
                /\ (a \in DOMAIN g'.st /\ g'.st[a] = 1) => g.st[sis'.pick[a]] = 1
                /\ g.st[sis'.pick[a]] = 0 => (a \in DOMAIN g'.st /\ g'.st[a] = 0)]_vars

\* C19: update() of the epidemic model never raises.
SisUpdateNeverRaises == sis.raised = "None"

\* C20: update() of the epidemic model leaves the node set and the edge set
\* of the current graph g as they were.
SisUpdateKeepsGraph ==
    [][sis'.op = "update" => (g'.nodes = g.nodes /\ g'.edges = g.edges)]_vars

\* every node of the graph gr carries the state 0
AllSusceptible(gr) == \A a \in Nodes : a \in DOMAIN gr.st /\ gr.st[a] = 0

\* C21: once every node of g is susceptible after an update(), every node
\* of g is susceptible after the next update(), and so after every later one.
DiseaseFreeIsAbsorbing ==
    [][(sis.op = "update" /\ AllSusceptible(g) /\ sis'.op = "update") =>
          AllSusceptible(g')]_vars

\* C22: in the cooling sweep every update() runs with temperature >= 1, so
\* log_p is a quotient with a positive divisor.
SweepUpdatesAboveZero ==
    call.op = "update" =>
        /\ temperature.val >= 1
        /\ call.log_p.kind = "num"
        /\ call.log_p.den > 0

\* the last update of the last round, at temperature 1
SweepUpdatesAboveZeroWitness ==
    /\ call.op = "update"
    /\ round = SweepT0 - 1
    /\ inner = UpdatesPerRound
    /\ temperature.val = 1

\* C23: update() changes neither the temperature nor the size; only the
\* chosen cell of the lattice and the step counter can differ.
UpdateKeepsParameters ==
    [][call'.op = "update" =>
          /\ temperature' = temperature
          /\ size' = size
          /\ DOMAIN state' = DOMAIN state
          /\ \A d \in DOMAIN state :
                state'[d] # state[d] => d = <<call'.i, call'.j>>]_vars

\* the last update of a run at the Curie temperature, accepted
UpdateKeepsParametersWitness ==
    /\ call.op = "update"
    /\ call.accepted
    /\ step = MaxUpdates
    /\ temperature = PyInt(CurieTemperature)

\* an update() that picks cell c and flips it
FlipsCell(c) ==
    /\ \E lu \in LogDraws : update(c[1], c[2], lu)
    /\ state' = Flipped(state, c)
    /\ UNCHANGED <<calls, driver, epidemic>>

\* C24: at a positive temperature every single-cell flip is accepted for
\* some value of the uniform draw, from every configuration; every
\* configuration of the same size is then reachable, one differing cell
\* at a time.
EveryFlipPossible ==
    (pc = "client" /\ temperature.val > 0) =>
        \A c \in Cells(size) : ENABLED FlipsCell(c)

\* an accepted flip that raises the energy, at a temperature the
\* constructor set
EveryFlipPossibleWitness ==
    /\ call.op = "update"
    /\ call.delta_E > 0
    /\ call.accepted
    /\ temperature.type = "int"
    /\ size = MaxSize

=============================================================================
